---- MODULE Spec2Model ----
(***************************************************************************)
(* Database provisioning and session lifecycle of package framework:      *)
(* CreateSession, DBExists, CreateDB and ConnectDB, run by callers against *)
(* one database server whose catalog is shared state.                      *)
(*                                                                         *)
(* Every call keeps a log (trace) of what a recording driver would see:    *)
(* sessions opened and closed, statements run, calls and returns.          *)
(***************************************************************************)
EXTENDS Integers, Sequences, FiniteSets, TLC

VARIABLES
  dialect,     \* the dialect argument the callers pass
  database,    \* database[p]: dbConfig.Database of caller p
  catalog,     \* the database names the server holds
  budget,      \* budget[p]: calls caller p may still start
  op,          \* op[p]: the public function caller p is running
  ignoreDb,    \* ignoreDb[p]: the ignoreDb argument of a direct CreateSession call
  pc,          \* pc[p]: position of caller p inside it
  sess,        \* sess[p]: ConnectDB's local sess (0 is nil)
  calleeSess,  \* calleeSess[p]: DBExists' or CreateDB's local sess (0 is nil)
  ret,         \* ret[p]: what the running public function returned
  trace,       \* trace[p]: log of the current call
  history,     \* history[p]: summaries of the calls p completed before
  Errors,      \* Validator.Errors: field -> messages, on the fields that have any
  prevErrors,  \* Errors as it was before the last rule call
  ruleCalls    \* the rule calls made on the Validator: rule, field, returned value

veeVars == <<Errors, prevErrors, ruleCalls>>

vars == <<dialect, database, catalog, budget, op, ignoreDb, pc, sess,
          calleeSess, ret, trace, history, Errors, prevErrors, ruleCalls>>

----------------------------------------------------------------------------
(* Bounds and input sets *)

MaxCalls == 2

MaxRules == 3

Procs == {"p1", "p2"}

Dialects == {"postgres", "mysql", "sqlite"}

Names == {"mydb", "MyDb"}

Ops == {"ConnectDB", "DBExists", "CreateDB", "CreateSession"}

----------------------------------------------------------------------------
(* Errors *)

Nil == "nil"

ErrUnknownDialect == "unknown dialect"

ErrNoSuchDatabase == "no such database exists"

ErrConnect == "failed to connect"

ErrCheck == "failed to check db existence"

ErrExecFailed == "exec failed"

ErrDuplicate == "database already exists"

----------------------------------------------------------------------------
(* The server: SQL semantics of the statements the code sends *)

\* SQL lower()
Lower(n) == IF n = "MyDb" THEN "mydb" ELSE n

\* The rows the catalog query selects.  postgres: lower(datname) = lower(name).
\* mysql: SCHEMA_NAME = name, under the collation of the server (ci or not).
QueryRows(d, cat, n, ci) ==
  IF d = "postgres" THEN {r \in cat : Lower(r) = Lower(n)}
  ELSE IF ci THEN {r \in cat : Lower(r) = Lower(n)}
  ELSE {r \in cat : r = n}

\* row.Scan(&database): a selected row, or the zero value when there is none
ScanValues(rows) == IF rows = {} THEN {""} ELSE rows

\* The database a CREATE DATABASE statement names: postgres folds the
\* unquoted identifier to lower case, mysql keeps it as written.
Target(d, n) == IF d = "postgres" THEN Lower(n) ELSE n

\* Mutant of Exec: postgres also takes CREATE DATABASE of an existing database
\* as a no-op.
ExecIfNotExistsEverywhere(d, cat, n, netOk) ==
  IF ~netOk THEN [err |-> "exec failed", cat |-> cat]
  ELSE [err |-> "nil", cat |-> cat \cup {Target(d, n)}]

\* sess.SQL().Exec of the CREATE DATABASE statement: the error it returns and
\* the catalog it leaves.  postgres: CREATE DATABASE <name> WITH OWNER <user>;
\* mysql: CREATE DATABASE IF NOT EXISTS <name>.
Exec(d, cat, n, netOk) ==
  IF ~netOk THEN [err |-> ErrExecFailed, cat |-> cat]
  ELSE IF d = "postgres"
  THEN IF Target(d, n) \in cat
       THEN [err |-> ErrDuplicate, cat |-> cat]
       ELSE [err |-> Nil, cat |-> cat \cup {Target(d, n)}]
  ELSE [err |-> Nil, cat |-> cat \cup {Target(d, n)}]

----------------------------------------------------------------------------
(* The log of a call *)

Ev(e, fn, id, arg, err, pre) ==
  [e |-> e, fn |-> fn, id |-> id, arg |-> arg, err |-> err, pre |-> pre]

Events(tr, e) == {i \in DOMAIN tr : tr[i].e = e}

\* sessions are numbered in the order they are opened within a call
Opened(tr) == {i \in Events(tr, "open") : tr[i].err = Nil}

NextId(tr) == Cardinality(Opened(tr)) + 1

BoolStr(b) == IF b THEN "true" ELSE "false"

NoRet == [sess |-> 0, err |-> "", exists |-> FALSE]

----------------------------------------------------------------------------
(* CreateSession *)

\* Mutant of CreateSession: a dialect that is not postgres is opened as mysql.
CreateSessionDefaultsToMysql(d, ignore, netOk, id) ==
  IF netOk
  THEN [sess |-> id, err |-> Nil,
        io |-> <<Ev("open", "CreateSession", id,
                    IF ignore THEN "unscoped" ELSE "scoped", Nil, {})>>]
  ELSE [sess |-> 0, err |-> ErrConnect,
        io |-> <<Ev("open", "CreateSession", 0,
                    IF ignore THEN "unscoped" ELSE "scoped", ErrConnect, {})>>]

\* What CreateSession returns and the driver calls it makes (io); netOk is
\* whether the driver's Open succeeds, id the session it would hand out.
CreateSession(d, ignore, netOk, id) ==
  IF d = "postgres" \/ d = "mysql"
  THEN IF netOk
       THEN [sess |-> id, err |-> Nil,
             io |-> <<Ev("open", "CreateSession", id,
                         IF ignore THEN "unscoped" ELSE "scoped", Nil, {})>>]
       ELSE [sess |-> 0, err |-> ErrConnect,
             io |-> <<Ev("open", "CreateSession", 0,
                         IF ignore THEN "unscoped" ELSE "scoped", ErrConnect, {})>>]
  ELSE [sess |-> 0, err |-> ErrUnknownDialect, io |-> <<>>]

\* a direct call of CreateSession
CreateSessionStep(p) ==
  /\ pc[p] = "CreateSession"
  /\ \E netOk \in BOOLEAN :
       LET r == CreateSession(dialect, ignoreDb[p], netOk, NextId(trace[p])) IN
       /\ ret' = [ret EXCEPT ![p] = [sess |-> r.sess, err |-> r.err, exists |-> FALSE]]
       /\ trace' = [trace EXCEPT ![p] =
                      trace[p] \o r.io \o
                      <<Ev("return", "CreateSession", r.sess, "", r.err, {})>>]
  /\ pc' = [pc EXCEPT ![p] = "done"]
  /\ UNCHANGED veeVars
  /\ UNCHANGED <<dialect, database, catalog, budget, op, ignoreDb, sess,
                 calleeSess, history>>

----------------------------------------------------------------------------
(* ConnectDB: what it does with the results of the functions it calls *)

\* Mutant of ConnectDBAfterProbe: CreateDB is called whatever the probe said.
ConnectDBAlwaysCreates(exists) == "CreateDB_open"

\* exists, _ := DBExists(...); if !exists { CreateDB } else { reconnect }
ConnectDBAfterProbe(exists) ==
  IF ~exists THEN "CreateDB_open" ELSE "ConnectDB_reconnect"

\* Mutant of ConnectDBAfterCreate: the error of CreateDB is dropped.
ConnectDBDropsCreateError(err, s) == [sess |-> s, err |-> Nil, exists |-> FALSE]

\* if err := CreateDB(...); err != nil { return nil, err } ... return sess, nil
ConnectDBAfterCreate(err, s) ==
  IF err # Nil THEN [sess |-> 0, err |-> err, exists |-> FALSE]
  ELSE [sess |-> s, err |-> Nil, exists |-> FALSE]

----------------------------------------------------------------------------
(* DBExists *)

\* Mutant of DBExistsResult: any selected row counts as a match.
DBExistsAcceptsAnyRow(row, n) ==
  IF row = "" THEN [exists |-> FALSE, err |-> ErrNoSuchDatabase]
  ELSE [exists |-> TRUE, err |-> Nil]

\* Mutant of DBExistsResult: a scan that does not give the name is reported as
\* a failed check.
DBExistsMismatchIsCheckError(row, n) ==
  IF row # n THEN [exists |-> FALSE, err |-> ErrCheck]
  ELSE [exists |-> TRUE, err |-> Nil]

\* database != dbConfig.Database decides between (false, ErrNoSuchDatabase)
\* and (true, nil)
DBExistsResult(row, n) ==
  IF row # n THEN [exists |-> FALSE, err |-> ErrNoSuchDatabase]
  ELSE [exists |-> TRUE, err |-> Nil]

\* DBExists returns (exists, err) after logging tr: to its caller when called
\* directly, into ConnectDB otherwise
ReturnFromDBExists(p, tr, exists, err) ==
  LET tr2 == Append(tr, Ev("return", "DBExists", 0, BoolStr(exists), err, {})) IN
  IF op[p] = "DBExists"
  THEN /\ pc' = [pc EXCEPT ![p] = "done"]
       /\ ret' = [ret EXCEPT ![p] = [sess |-> 0, err |-> err, exists |-> exists]]
       /\ trace' = [trace EXCEPT ![p] = tr2]
  ELSE LET nxt == ConnectDBAfterProbe(exists) IN
       /\ pc' = [pc EXCEPT ![p] = nxt]
       /\ ret' = ret
       /\ trace' = [trace EXCEPT ![p] =
                      IF nxt = "CreateDB_open"
                      THEN Append(tr2, Ev("call", "CreateDB", 0, "", Nil, {}))
                      ELSE tr2]

\* the dialect test and the driver's Open
DBExistsOpen(p) ==
  /\ pc[p] = "DBExists_open"
  /\ IF dialect = "postgres" \/ dialect = "mysql"
     THEN \E netOk \in BOOLEAN :
            IF netOk
            THEN /\ calleeSess' = [calleeSess EXCEPT ![p] = NextId(trace[p])]
                 /\ trace' = [trace EXCEPT ![p] =
                                Append(trace[p], Ev("open", "DBExists", NextId(trace[p]),
                                                    "unscoped", Nil, {}))]
                 /\ pc' = [pc EXCEPT ![p] = "DBExists_query"]
                 /\ ret' = ret
            ELSE /\ calleeSess' = calleeSess
                 /\ ReturnFromDBExists(p,
                      Append(trace[p], Ev("open", "DBExists", 0, "unscoped", ErrConnect, {})),
                      FALSE, ErrConnect)
     ELSE /\ calleeSess' = calleeSess
          /\ ReturnFromDBExists(p, trace[p], FALSE, ErrUnknownDialect)
  /\ UNCHANGED veeVars
  /\ UNCHANGED <<dialect, database, catalog, budget, op, ignoreDb, sess, history>>

\* the catalog query, the scan of its row, and the deferred Close
DBExistsQuery(p) ==
  /\ pc[p] = "DBExists_query"
  /\ \E qOk \in BOOLEAN, ci \in BOOLEAN :
       LET id == calleeSess[p]
           close == Ev("close", "DBExists", id, "", Nil, {})
       IN
       IF ~qOk
       THEN ReturnFromDBExists(p,
              trace[p] \o <<Ev("query", "DBExists", id, "", ErrCheck, catalog), close>>,
              FALSE, ErrCheck)
       ELSE \E row \in ScanValues(QueryRows(dialect, catalog, database[p], ci)) :
              LET r == DBExistsResult(row, database[p]) IN
              ReturnFromDBExists(p,
                trace[p] \o <<Ev("query", "DBExists", id, row, Nil, catalog), close>>,
                r.exists, r.err)
  /\ calleeSess' = [calleeSess EXCEPT ![p] = 0]
  /\ UNCHANGED veeVars
  /\ UNCHANGED <<dialect, database, catalog, budget, op, ignoreDb, sess, history>>

----------------------------------------------------------------------------
(* CreateDB *)

\* CreateDB returns err after logging tr: to its caller when called directly,
\* into ConnectDB otherwise, which then returns too
ReturnFromCreateDB(p, tr, err) ==
  LET tr2 == Append(tr, Ev("return", "CreateDB", 0, "", err, {})) IN
  /\ pc' = [pc EXCEPT ![p] = "done"]
  /\ IF op[p] = "CreateDB"
     THEN /\ ret' = [ret EXCEPT ![p] = [sess |-> 0, err |-> err, exists |-> FALSE]]
          /\ trace' = [trace EXCEPT ![p] = tr2]
     ELSE LET r == ConnectDBAfterCreate(err, sess[p]) IN
          /\ ret' = [ret EXCEPT ![p] = r]
          /\ trace' = [trace EXCEPT ![p] =
                         Append(tr2, Ev("return", "ConnectDB", r.sess, "", r.err, {}))]

\* sess, err = CreateSession(dialect, dbConfig, true)
CreateDBOpen(p) ==
  /\ pc[p] = "CreateDB_open"
  /\ \E netOk \in BOOLEAN :
       LET r == CreateSession(dialect, TRUE, netOk, NextId(trace[p])) IN
       IF r.err # Nil
       THEN /\ calleeSess' = calleeSess
            /\ ReturnFromCreateDB(p, trace[p] \o r.io, r.err)
       ELSE /\ calleeSess' = [calleeSess EXCEPT ![p] = r.sess]
            /\ trace' = [trace EXCEPT ![p] = trace[p] \o r.io]
            /\ pc' = [pc EXCEPT ![p] = "CreateDB_exec"]
            /\ ret' = ret
  /\ UNCHANGED veeVars
  /\ UNCHANGED <<dialect, database, catalog, budget, op, ignoreDb, sess, history>>

\* Mutant of CreateDBExec: the deferred Close is skipped when Exec fails.
CreateDBExecLeaksOnError(p) ==
  /\ pc[p] = "CreateDB_exec"
  /\ \E netOk \in BOOLEAN :
       LET x == Exec(dialect, catalog, database[p], netOk)
           id == calleeSess[p]
       IN
       /\ catalog' = x.cat
       /\ ReturnFromCreateDB(p,
            trace[p] \o <<Ev("exec", "CreateDB", id, "", x.err, catalog)>> \o
              (IF x.err = Nil THEN <<Ev("close", "CreateDB", id, "", Nil, {})>> ELSE <<>>),
            x.err)
  /\ calleeSess' = [calleeSess EXCEPT ![p] = 0]
  /\ UNCHANGED veeVars
  /\ UNCHANGED <<dialect, database, budget, op, ignoreDb, sess, history>>

\* the CREATE DATABASE statement and the deferred Close
CreateDBExec(p) ==
  /\ pc[p] = "CreateDB_exec"
  /\ \E netOk \in BOOLEAN :
       LET x == Exec(dialect, catalog, database[p], netOk)
           id == calleeSess[p]
       IN
       /\ catalog' = x.cat
       /\ ReturnFromCreateDB(p,
            trace[p] \o <<Ev("exec", "CreateDB", id, "", x.err, catalog),
                          Ev("close", "CreateDB", id, "", Nil, {})>>,
            x.err)
  /\ calleeSess' = [calleeSess EXCEPT ![p] = 0]
  /\ UNCHANGED veeVars
  /\ UNCHANGED <<dialect, database, budget, op, ignoreDb, sess, history>>

----------------------------------------------------------------------------
(* ConnectDB *)

\* sess, err := CreateSession(dialect, dbConfig, true)
ConnectDBBootstrap(p) ==
  /\ pc[p] = "ConnectDB_bootstrap"
  /\ \E netOk \in BOOLEAN :
       LET r == CreateSession(dialect, TRUE, netOk, NextId(trace[p])) IN
       IF r.err # Nil
       THEN /\ ret' = [ret EXCEPT ![p] = [sess |-> 0, err |-> r.err, exists |-> FALSE]]
            /\ trace' = [trace EXCEPT ![p] =
                           trace[p] \o r.io \o
                           <<Ev("return", "ConnectDB", 0, "", r.err, {})>>]
            /\ pc' = [pc EXCEPT ![p] = "done"]
            /\ sess' = sess
       ELSE /\ ret' = ret
            /\ trace' = [trace EXCEPT ![p] =
                           trace[p] \o r.io \o
                           <<Ev("call", "DBExists", 0, "", Nil, {})>>]
            /\ pc' = [pc EXCEPT ![p] = "DBExists_open"]
            /\ sess' = [sess EXCEPT ![p] = r.sess]
  /\ UNCHANGED veeVars
  /\ UNCHANGED <<dialect, database, catalog, budget, op, ignoreDb, calleeSess, history>>

\* sess.Close(); sess, err = CreateSession(dialect, dbConfig, false)
ConnectDBReconnect(p) ==
  /\ pc[p] = "ConnectDB_reconnect"
  /\ \E netOk \in BOOLEAN :
       LET closed == Append(trace[p], Ev("close", "ConnectDB", sess[p], "", Nil, {}))
           r == CreateSession(dialect, FALSE, netOk, NextId(closed))
       IN
       /\ sess' = [sess EXCEPT ![p] = r.sess]
       /\ ret' = [ret EXCEPT ![p] = [sess |-> r.sess, err |-> r.err, exists |-> FALSE]]
       /\ trace' = [trace EXCEPT ![p] =
                      closed \o r.io \o
                      <<Ev("return", "ConnectDB", r.sess, "", r.err, {})>>]
  /\ pc' = [pc EXCEPT ![p] = "done"]
  /\ UNCHANGED veeVars
  /\ UNCHANGED <<dialect, database, catalog, budget, op, ignoreDb, calleeSess, history>>

----------------------------------------------------------------------------
(* package vee: Validator *)

Fields == {"email", "age"}

Ints == {0, 1}

Strings == {"a", "b"}

\* the values of interface{} passed to Required: nil, a string, an int
Values ==
  {[t |-> "nil", s |-> "", n |-> 0]}
  \cup {[t |-> "string", s |-> x, n |-> 0] : x \in {"", "a"}}
  \cup {[t |-> "int", s |-> "", n |-> x] : x \in Ints}

ValidValues == {<<>>, <<"a">>}

\* strconv.Itoa
Itoa(n) == IF n = 0 THEN "0" ELSE "1"

\* strings.Join; a message is the sequence of the strings concatenated
RECURSIVE Join(_, _)
Join(elems, sep) ==
  IF Len(elems) = 0 THEN <<>>
  ELSE IF Len(elems) = 1 THEN <<elems[1]>>
  ELSE <<elems[1], sep>> \o Join(Tail(elems), sep)

\* make(map[string][]string)
NewValidator == [f \in {} |-> <<>>]

\* v.Errors[field], the nil slice when the key is absent
ErrorsOf(errs, field) == IF field \in DOMAIN errs THEN errs[field] ELSE <<>>

\* Mutant of AddError: the message replaces the messages of the field.
AddErrorOverwrites(errs, field, message) ==
  [f \in DOMAIN errs \cup {field} |->
     IF f = field THEN <<message>> ELSE errs[f]]

\* v.Errors[field] = append(v.Errors[field], message)
AddError(errs, field, message) ==
  [f \in DOMAIN errs \cup {field} |->
     IF f = field THEN Append(ErrorsOf(errs, field), message) ELSE errs[f]]

\* len(v.Errors) == 0
IsValid(errs) == Cardinality(DOMAIN errs) = 0

\* a rule call that fails (failed, with message) or passes, and returns so
Rule(name, field, failed, message) ==
  /\ Errors' = IF failed THEN AddError(Errors, field, message) ELSE Errors
  /\ prevErrors' = Errors
  /\ ruleCalls' = Append(ruleCalls, [rule |-> name, field |-> field, ret |-> ~failed])
  /\ UNCHANGED <<dialect, database, catalog, budget, op, ignoreDb, pc, sess,
                 calleeSess, ret, trace, history>>

Required(field, value) ==
  /\ Len(ruleCalls) < MaxRules
  /\ Rule("Required", field,
          value.t = "nil" \/ (value.t = "string" /\ value.s = ""),
          <<"This field is required">>)

Min(field, value, min) ==
  /\ Len(ruleCalls) < MaxRules
  /\ Rule("Min", field, value < min,
          <<"This field must be at least ", Itoa(min)>>)

Max(field, value, max) ==
  /\ Len(ruleCalls) < MaxRules
  /\ Rule("Max", field, value > max,
          <<"This field must not exceed ", Itoa(max)>>)

Between(field, value, min, max) ==
  /\ Len(ruleCalls) < MaxRules
  /\ Rule("Between", field, value < min \/ value > max,
          <<"This field must be between ", Itoa(min), " and ", Itoa(max)>>)

In(field, value, validValues) ==
  /\ Len(ruleCalls) < MaxRules
  /\ Rule("In", field,
          ~\E i \in DOMAIN validValues : value = validValues[i],
          <<"This field must be one of the following: ">> \o Join(validValues, ", "))

----------------------------------------------------------------------------
(* Callers *)

IOFaults == {ErrConnect, ErrCheck, ErrExecFailed}

\* what is kept of a completed call
Summary(p) ==
  [op |-> op[p],
   err |-> ret[p].err,
   fault |-> \E i \in DOMAIN trace[p] : trace[p][i].err \in IOFaults,
   created |-> \E i \in Events(trace[p], "call") : trace[p][i].fn = "CreateDB",
   present |-> Target(dialect, database[p]) \in catalog]

Entry(f) ==
  CASE f = "ConnectDB" -> "ConnectDB_bootstrap"
    [] f = "DBExists" -> "DBExists_open"
    [] f = "CreateDB" -> "CreateDB_open"
    [] f = "CreateSession" -> "CreateSession"

\* caller p calls public function f
Call(p, f, ign) ==
  /\ pc[p] \in {"idle", "done"}
  /\ budget[p] > 0
  /\ f = "CreateSession" \/ ign
  /\ budget' = [budget EXCEPT ![p] = @ - 1]
  /\ op' = [op EXCEPT ![p] = f]
  /\ ignoreDb' = [ignoreDb EXCEPT ![p] = ign]
  /\ pc' = [pc EXCEPT ![p] = Entry(f)]
  /\ sess' = [sess EXCEPT ![p] = 0]
  /\ calleeSess' = [calleeSess EXCEPT ![p] = 0]
  /\ ret' = [ret EXCEPT ![p] = NoRet]
  /\ trace' = [trace EXCEPT ![p] = <<Ev("call", f, 0, "", Nil, {})>>]
  /\ history' = [history EXCEPT ![p] =
                   IF pc[p] = "done" THEN Append(@, Summary(p)) ELSE @]
  /\ UNCHANGED veeVars
  /\ UNCHANGED <<dialect, database, catalog>>

\* Either one caller makes MaxCalls calls in succession, or every caller
\* makes one call and the calls interleave.
Init ==
  /\ dialect \in Dialects
  /\ catalog \in SUBSET Names
  /\ dialect = "sqlite" => catalog = {}
  /\ database \in [Procs -> Names]
  /\ \/ budget = [p \in Procs |-> IF p = "p1" THEN MaxCalls ELSE 0]
     \/ budget = [p \in Procs |-> 1]
  /\ budget["p2"] = 0 => database["p2"] = database["p1"]
  /\ op = [p \in Procs |-> "none"]
  /\ ignoreDb = [p \in Procs |-> TRUE]
  /\ pc = [p \in Procs |-> "idle"]
  /\ sess = [p \in Procs |-> 0]
  /\ calleeSess = [p \in Procs |-> 0]
  /\ ret = [p \in Procs |-> NoRet]
  /\ trace = [p \in Procs |-> <<>>]
  /\ history = [p \in Procs |-> <<>>]
  /\ Errors = NewValidator
  /\ prevErrors = NewValidator
  /\ ruleCalls = <<>>

Next ==
  \/ \E p \in Procs, f \in Ops, ign \in BOOLEAN : Call(p, f, ign)
  \/ \E p \in Procs : CreateSessionStep(p)
  \/ \E p \in Procs : DBExistsOpen(p)
  \/ \E p \in Procs : DBExistsQuery(p)
  \/ \E p \in Procs : CreateDBOpen(p)
  \/ \E p \in Procs : CreateDBExec(p)
  \/ \E p \in Procs : ConnectDBBootstrap(p)
  \/ \E p \in Procs : ConnectDBReconnect(p)

Spec == Init /\ [][Next]_vars

\* A Validator on its own: no database call is made.
InitVee ==
  /\ dialect = "postgres"
  /\ catalog = {}
  /\ database = [p \in Procs |-> "mydb"]
  /\ budget = [p \in Procs |-> 0]
  /\ op = [p \in Procs |-> "none"]
  /\ ignoreDb = [p \in Procs |-> TRUE]
  /\ pc = [p \in Procs |-> "idle"]
  /\ sess = [p \in Procs |-> 0]
  /\ calleeSess = [p \in Procs |-> 0]
  /\ ret = [p \in Procs |-> NoRet]
  /\ trace = [p \in Procs |-> <<>>]
  /\ history = [p \in Procs |-> <<>>]
  /\ Errors = NewValidator
  /\ prevErrors = NewValidator
  /\ ruleCalls = <<>>

NextVee ==
  \/ \E f \in Fields, v \in Values : Required(f, v)
  \/ \E f \in Fields, v \in Ints, m \in Ints : Min(f, v, m)
  \/ \E f \in Fields, v \in Ints, m \in Ints : Max(f, v, m)
  \/ \E f \in Fields, v \in Ints, lo \in Ints, hi \in Ints : Between(f, v, lo, hi)
  \/ \E f \in Fields, v \in Strings, vs \in ValidValues : In(f, v, vs)

SpecVee == InitVee /\ [][NextVee]_vars

----------------------------------------------------------------------------
(* Reading the log *)

Calls(tr, fn) == {i \in Events(tr, "call") : tr[i].fn = fn}

Returns(tr, fn) == {i \in Events(tr, "return") : tr[i].fn = fn}

Closes(tr, id) == {i \in Events(tr, "close") : tr[i].id = id}

\* successful queries, and successful queries that selected no row
Probes(tr) == {i \in Events(tr, "query") : tr[i].err = Nil}

\* the session ConnectDB opens first
BootstrapOpen(tr) == CHOOSE i \in Opened(tr) : \A j \in Opened(tr) : i <= j

\* attempts to open a session with the database name included
ScopedOpens(tr) == {i \in Events(tr, "open") : tr[i].arg = "scoped"}

ConnectDBDone(p) == op[p] = "ConnectDB" /\ pc[p] = "done"

Known == dialect \in {"postgres", "mysql"}

\* names that differ from n in letter case only
CaseVariants(n, cat) == {c \in cat : c # n /\ Lower(c) = Lower(n)}

----------------------------------------------------------------------------
(* Claims *)

\* C1: in ConnectDB a failed existence probe (DBExists could not connect or
\* its query failed) ends ConnectDB with an error and CreateDB is not invoked;
\* CreateDB is invoked only after a probe whose query ran and selected no row.
C1_ProbeFailureStopsConnectDB ==
  \A p \in Procs :
    op[p] = "ConnectDB" =>
      /\ (\E i \in Returns(trace[p], "DBExists") : trace[p][i].err \in {ErrConnect, ErrCheck})
           => /\ Calls(trace[p], "CreateDB") = {}
              /\ pc[p] = "done" => ret[p].err # Nil
      /\ Calls(trace[p], "CreateDB") # {}
           => \E i \in Probes(trace[p]) : trace[p][i].arg = ""

\* C2: when the database is absent (the probe ran and selected no row) and
\* CreateDB succeeds (it created the database), ConnectDB closes the
\* bootstrap session, then opens a session with the database name included and
\* returns that one, never the bootstrap session.
C2_AbsentCreatesThenReconnects ==
  \A p \in Procs :
    (/\ ConnectDBDone(p)
     /\ \E i \in Probes(trace[p]) : trace[p][i].arg = ""
     /\ \E i \in Events(trace[p], "exec") :
          /\ trace[p][i].err = Nil
          /\ Target(dialect, database[p]) \notin trace[p][i].pre)
    => LET tr == trace[p]
           boot == tr[BootstrapOpen(tr)].id
       IN
       /\ ret[p].err = Nil
       /\ ret[p].sess # 0
       /\ ret[p].sess # boot
       /\ \E c \in Closes(tr, boot) : \E o \in ScopedOpens(tr) :
            /\ c < o
            /\ tr[o].id = ret[p].sess

\* C3: on every exit path of ConnectDB every session opened during the call,
\* other than the one returned, has been closed exactly once: successful opens
\* = closes + the returned session.
C3_NoSessionLeak ==
  \A p \in Procs :
    ConnectDBDone(p) =>
      LET tr == trace[p] IN
      /\ Cardinality(Opened(tr)) =
           Cardinality(Events(tr, "close")) + (IF ret[p].sess # 0 THEN 1 ELSE 0)
      /\ \A i \in Opened(tr) :
           Cardinality(Closes(tr, tr[i].id)) = (IF tr[i].id = ret[p].sess THEN 0 ELSE 1)

\* C4: when the probe returns true, ConnectDB never invokes CreateDB and sends
\* no CREATE DATABASE, closes the bootstrap session before it opens the scoped
\* session, and returns the scoped session.
C4_ExistingDatabaseReconnects ==
  \A p \in Procs :
    (/\ op[p] = "ConnectDB"
     /\ \E i \in Returns(trace[p], "DBExists") : trace[p][i].arg = "true")
    => LET tr == trace[p]
           boot == tr[BootstrapOpen(tr)].id
       IN
       /\ Calls(tr, "CreateDB") = {}
       /\ Events(tr, "exec") = {}
       /\ pc[p] = "done" =>
            /\ Cardinality(Closes(tr, boot)) = 1
            /\ Cardinality(ScopedOpens(tr)) = 1
            /\ \A c \in Closes(tr, boot) : \A o \in ScopedOpens(tr) : c < o
            /\ ret[p].err = Nil =>
                 /\ ret[p].sess # boot
                 /\ \E o \in ScopedOpens(tr) : tr[o].err = Nil /\ tr[o].id = ret[p].sess
            /\ ret[p].err # Nil => ret[p].sess = 0

C4_Witness ==
  \E p \in Procs :
    /\ ConnectDBDone(p)
    /\ \E i \in Returns(trace[p], "DBExists") : trace[p][i].arg = "true"
    /\ ret[p].err = Nil

\* C5: with a dialect other than postgres and mysql, DBExists, CreateDB,
\* CreateSession and ConnectDB return the unknown-dialect error and open no
\* session (no driver call is made at all).
C5_UnknownDialect ==
  \A p \in Procs :
    ~Known =>
      /\ \A i \in DOMAIN trace[p] : trace[p][i].e \in {"call", "return"}
      /\ pc[p] = "done" =>
           /\ ret[p].err = ErrUnknownDialect
           /\ ret[p].sess = 0
           /\ ~ret[p].exists

C5_Witness ==
  /\ ~Known
  /\ pc["p1"] = "done" /\ op["p1"] = "ConnectDB"
  /\ pc["p2"] = "done" /\ op["p2"] = "CreateDB"

\* C6: with postgres, DBExists of a name that differs from an existing catalog
\* entry only in letter case (the name as written is not in the catalog)
\* returns true.
C6_PostgresProbeFoldsCase ==
  \A p \in Procs :
    (/\ op[p] = "DBExists" /\ pc[p] = "done"
     /\ dialect = "postgres"
     /\ \E i \in Probes(trace[p]) :
          /\ database[p] \notin trace[p][i].pre
          /\ CaseVariants(database[p], trace[p][i].pre) # {})
    => ret[p].exists /\ ret[p].err = Nil

\* C7: two ConnectDB calls in succession with the same dialect and parameters,
\* the database existing by the second call (and no other catalog entry equal
\* to it up to letter case), no driver call failing: both return success and
\* the second does not attempt CreateDB.
C7_SecondConnectDBSkipsCreate ==
  \A p \in Procs :
    (/\ ConnectDBDone(p)
     /\ history[p] # <<>>
     /\ history[p][Len(history[p])].op = "ConnectDB"
     /\ history[p][Len(history[p])].present
     /\ CaseVariants(Target(dialect, database[p]), catalog) = {}
     /\ ~history[p][Len(history[p])].fault
     /\ ~Summary(p).fault)
    => /\ history[p][Len(history[p])].err = Nil
       /\ ret[p].err = Nil
       /\ ~Summary(p).created

\* C8: when CREATE DATABASE runs in ConnectDB although the database is already
\* there (a racing call created it after this call's probe), postgres fails the
\* statement and ConnectDB returns an error; mysql's IF NOT EXISTS makes it a
\* no-op and ConnectDB returns success.
C8_LosingCreate ==
  \A p \in Procs :
    ConnectDBDone(p) =>
      \A i \in Events(trace[p], "exec") :
        Target(dialect, database[p]) \in trace[p][i].pre =>
          /\ dialect = "postgres" =>
               /\ trace[p][i].err # Nil
               /\ ret[p].err # Nil
               /\ ret[p].sess = 0
          /\ (dialect = "mysql" /\ trace[p][i].err # ErrExecFailed) =>
               /\ trace[p][i].err = Nil
               /\ ret[p].err = Nil
               /\ ret[p].sess # 0

\* both calls saw the database absent, both invoked CreateDB
BothSawAbsent ==
  /\ ConnectDBDone("p1") /\ ConnectDBDone("p2")
  /\ Target(dialect, database["p1"]) = Target(dialect, database["p2"])
  /\ \A p \in Procs :
       /\ \E i \in Probes(trace[p]) :
            /\ trace[p][i].arg = ""
            /\ Target(dialect, database[p]) \notin trace[p][i].pre
       /\ Calls(trace[p], "CreateDB") # {}

C8_Witness ==
  /\ dialect = "postgres"
  /\ BothSawAbsent
  /\ \E i \in Events(trace["p1"], "exec") : trace["p1"][i].err = Nil
  /\ \E i \in Events(trace["p2"], "exec") : trace["p2"][i].err = ErrDuplicate
  /\ ret["p1"].err = Nil
  /\ ret["p2"].err = ErrDuplicate

C8_WitnessMysql ==
  /\ dialect = "mysql"
  /\ BothSawAbsent
  /\ \E i \in Events(trace["p2"], "exec") :
       /\ database["p2"] \in trace["p2"][i].pre
       /\ trace["p2"][i].err = Nil
  /\ ret["p1"].err = Nil
  /\ ret["p2"].err = Nil

\* C9: when CreateDB fails inside ConnectDB, ConnectDB returns that error and
\* no session, opens no scoped session afterwards and retries nothing.
C9_CreateFailureIsFatal ==
  \A p \in Procs :
    ConnectDBDone(p) =>
      \A i \in Returns(trace[p], "CreateDB") :
        trace[p][i].err # Nil =>
          /\ ret[p].err = trace[p][i].err
          /\ ret[p].sess = 0
          /\ ScopedOpens(trace[p]) = {}
          /\ Cardinality(Calls(trace[p], "CreateDB")) = 1
          /\ Cardinality(Calls(trace[p], "DBExists")) = 1
          /\ Len(trace[p]) = i + 1
          /\ trace[p][i + 1].e = "return" /\ trace[p][i + 1].fn = "ConnectDB"

C9_Witness ==
  \E p \in Procs :
    /\ ConnectDBDone(p)
    /\ \E i \in Events(trace[p], "exec") : trace[p][i].err = ErrDuplicate
    /\ \E i \in Returns(trace[p], "CreateDB") : trace[p][i].err = ErrDuplicate

\* C10: with mysql, DBExists of a name that differs from every catalog entry
\* (an entry equal up to letter case exists, the name itself does not) returns
\* false.
C10_MysqlProbeKeepsCase ==
  \A p \in Procs :
    dialect = "mysql" =>
      \A i \in Probes(trace[p]) :
        (/\ database[p] \notin trace[p][i].pre
         /\ CaseVariants(database[p], trace[p][i].pre) # {})
        => /\ i + 2 \in Returns(trace[p], "DBExists")
           /\ trace[p][i + 2].arg = "false"
           /\ (op[p] = "DBExists" => ~ret[p].exists)

C10_Witness ==
  \E p \in Procs :
    /\ dialect = "mysql"
    /\ op[p] = "DBExists" /\ pc[p] = "done"
    /\ \E i \in Probes(trace[p]) :
         /\ database[p] \notin trace[p][i].pre
         /\ trace[p][i].arg \in CaseVariants(database[p], trace[p][i].pre)

\* C11: CreateDB opens exactly one unscoped session of its own and closes it
\* before it returns, whether CREATE succeeded or failed; when its open fails
\* or the dialect is unknown it holds no session and closes nothing.
C11_CreateDBOwnsOneSession ==
  \A p \in Procs :
    \A c \in Calls(trace[p], "CreateDB") : \A r \in Returns(trace[p], "CreateDB") :
      LET tr == trace[p]
          opens == {i \in Events(tr, "open") : c < i /\ i < r}
          closes == {i \in Events(tr, "close") : c < i /\ i < r}
      IN
      /\ c < r
      /\ \A i \in opens : tr[i].fn = "CreateSession" /\ tr[i].arg = "unscoped"
      /\ Cardinality(opens) = (IF Known THEN 1 ELSE 0)
      /\ \A i \in opens :
           IF tr[i].err = Nil
           THEN /\ Cardinality(closes) = 1
                /\ \A k \in closes :
                     /\ tr[k].id = tr[i].id
                     /\ tr[k].fn = "CreateDB"
                     /\ \E x \in Events(tr, "exec") : i < x /\ x < k
                /\ Cardinality(Closes(tr, tr[i].id)) = 1
           ELSE closes = {}
      /\ opens = {} => closes = {}

C11_Witness ==
  \E p \in Procs :
    /\ op[p] = "CreateDB" /\ pc[p] = "done"
    /\ ret[p].err = ErrDuplicate
    /\ \E k \in Events(trace[p], "close") : trace[p][k].fn = "CreateDB"

\* sessions opened and not yet closed
OpenSessions(tr) == {tr[i].id : i \in Opened(tr)} \ {tr[k].id : k \in Events(tr, "close")}

\* C12: the probe run by ConnectDB sends its catalog query on the bootstrap
\* session ConnectDB opened; DBExists opens no session of its own, so exactly
\* one session is open during the probe.
C12_ProbeUsesBootstrapSession ==
  \A p \in Procs :
    op[p] = "ConnectDB" =>
      LET tr == trace[p] IN
      /\ \A i \in Opened(tr) : tr[i].fn # "DBExists"
      /\ \A q \in Events(tr, "query") : tr[q].id = tr[BootstrapOpen(tr)].id
      /\ pc[p] = "DBExists_query" => Cardinality(OpenSessions(tr)) = 1

\* the query of the DBExists call that returned at r (none when its Open failed
\* or the dialect is unknown)
QueryOf(tr, r) == {q \in Events(tr, "query") : q + 2 = r}

\* C13 as stated: when DBExists connects and its query runs but selects no
\* row, it returns false with no error; it returns an error only for a
\* connection failure, a query failure or an unknown dialect.
C13_NoRowIsNoError ==
  \A p \in Procs : \A r \in Returns(trace[p], "DBExists") :
    LET tr == trace[p] IN
    /\ (\E q \in QueryOf(tr, r) : tr[q].err = Nil /\ tr[q].arg = "")
         => tr[r].arg = "false" /\ tr[r].err = Nil
    /\ tr[r].err # Nil => tr[r].err \in {ErrConnect, ErrCheck, ErrUnknownDialect}

\* C13 amended: when DBExists connects and its query runs but selects no row,
\* it returns false with ErrNoSuchDatabase; it returns any other error only
\* for a connection failure (its Open failed), a query failure or an unknown
\* dialect, and ErrNoSuchDatabase only after a query that ran.
C13_NoRowIsNoSuchDatabase ==
  \A p \in Procs : \A r \in Returns(trace[p], "DBExists") :
    LET tr == trace[p] IN
    /\ (\E q \in QueryOf(tr, r) : tr[q].err = Nil /\ tr[q].arg = "")
         => tr[r].arg = "false" /\ tr[r].err = ErrNoSuchDatabase
    /\ tr[r].err = ErrNoSuchDatabase
         => \E q \in QueryOf(tr, r) : tr[q].err = Nil
    /\ tr[r].err \notin {Nil, ErrNoSuchDatabase} =>
         \/ /\ tr[r].err = ErrUnknownDialect
            /\ ~Known
         \/ /\ tr[r].err = ErrConnect
            /\ tr[r - 1].e = "open" /\ tr[r - 1].fn = "DBExists" /\ tr[r - 1].err = ErrConnect
         \/ /\ tr[r].err = ErrCheck
            /\ \E q \in QueryOf(tr, r) : tr[q].err = ErrCheck

C13_Witness ==
  \E p \in Procs :
    /\ op[p] = "DBExists" /\ pc[p] = "done"
    /\ \E q \in Probes(trace[p]) : trace[p][q].arg = ""
    /\ ~ret[p].exists
    /\ ret[p].err = ErrNoSuchDatabase

FailedCalls(f) == {i \in DOMAIN ruleCalls : ruleCalls[i].field = f /\ ~ruleCalls[i].ret}

\* C14: for any sequence of rule calls on a Validator made by NewValidator,
\* IsValid() is true exactly when every rule call so far returned true: a call
\* that returns false appends exactly one message to the Errors of its field
\* and leaves the other fields alone, a call that returns true leaves Errors
\* alone, and nothing recorded is ever removed.
C14_IsValidIffAllRulesPassed ==
  /\ IsValid(Errors) <=> \A i \in DOMAIN ruleCalls : ruleCalls[i].ret
  /\ \A f \in Fields :
       /\ Len(ErrorsOf(Errors, f)) = Cardinality(FailedCalls(f))
       /\ f \in DOMAIN Errors <=> FailedCalls(f) # {}
  /\ ruleCalls # <<>> =>
       LET last == ruleCalls[Len(ruleCalls)]
           before == ErrorsOf(prevErrors, last.field)
           after == ErrorsOf(Errors, last.field)
       IN
       IF last.ret
       THEN Errors = prevErrors
       ELSE /\ DOMAIN Errors = DOMAIN prevErrors \cup {last.field}
            /\ \A f \in DOMAIN prevErrors \ {last.field} : Errors[f] = prevErrors[f]
            /\ Len(after) = Len(before) + 1
            /\ SubSeq(after, 1, Len(before)) = before

C14_Witness ==
  /\ \E i \in DOMAIN ruleCalls : ruleCalls[i].ret
  /\ \E f \in Fields : Len(ErrorsOf(Errors, f)) = 2
  /\ ~IsValid(Errors)

====
